---- MODULE Spec2Model ----
(***************************************************************************)
(* RichConsole.py: a tree of styled strings (RichStr) is flattened into    *)
(* sheets and texts (dfs / sheetRepr), the sheets are turned into the      *)
(* control codes of their differences (Sheet.diff, optimizeSheetsToCodes), *)
(* adjacent codes are merged (mergeAdjacentCodes) and the result is        *)
(* rendered to a string (ControlCodes.__str__, RichStr.__str__).           *)
(*                                                                         *)
(* A string is a sequence of characters; the escape character is "ESC".    *)
(***************************************************************************)
EXTENDS Integers, Sequences, FiniteSets, TLC

VARIABLES
    nodes,      \* the RichStr objects built so far: [sheet, subStrs]
    built,      \* history: every RichStr as its constructor left it
    last,       \* the last call on a RichStr and what it returned
    shA, shB,   \* the operands of the last Sheet operation
    shOut,      \* the last Sheet operation and its result
    mbuf,       \* mergeAdjacentCodes: the token stream it iterates over
    mpos,       \* mergeAdjacentCodes: how many tokens it has consumed
    accum,      \* mergeAdjacentCodes: its accumulator (NoAccum is None)
    mout,       \* mergeAdjacentCodes: the tokens it has yielded
    mpc,        \* mergeAdjacentCodes: "loop", "done" or "raised"
    objs,       \* the Style objects made so far: [cls, name, codes, group]
    cats        \* the StyleGroup objects made so far: [name, map, ok]

vars == <<nodes, built, last, shA, shB, shOut, mbuf, mpos, accum, mout, mpc, objs, cats>>

----
(* Bounds of the model *)

\* the number of RichStr objects built by the constructor action
MaxNodes == 3
\* the number of positional arguments of one RichStr constructor call
MaxArgs == 2
\* the number of leading catalog groups a Sheet operand may mention
MaxCats == 2
\* the length of the token stream handed to mergeAdjacentCodes
MaxToks == 4

----
(* Strings *)

Digit == <<"0", "1", "2", "3", "4", "5", "6", "7", "8", "9">>

Digits == {Digit[i] : i \in 1..10}

\* str(int) of a non-negative integer
RECURSIVE IntStr(_)
IntStr(n) ==
    IF n < 10 THEN <<Digit[n + 1]>>
    ELSE IntStr(n \div 10) \o <<Digit[(n % 10) + 1]>>

\* ";".join(map(str, codes))
RECURSIVE JoinCodes(_)
JoinCodes(codes) ==
    IF Len(codes) = 0 THEN <<>>
    ELSE IF Len(codes) = 1 THEN IntStr(codes[1])
    ELSE IntStr(codes[1]) \o <<";">> \o JoinCodes(Tail(codes))

\* "".join(seq of strings)
RECURSIVE Concat(_)
Concat(ss) == IF Len(ss) = 0 THEN <<>> ELSE ss[1] \o Concat(Tail(ss))

\* ControlCodes.__str__
ControlCodesStr(codes) ==
    IF Len(codes) > 0 THEN <<"ESC", "[">> \o JoinCodes(codes) \o <<"m">>
    ELSE <<>>

----
(* Styles and the catalog *)

\* ControlCodes(codes): a bare sequence of control codes
ControlCodes(codes) == [cls |-> "ControlCodes", codes |-> codes]

\* Style(name, codes, group): group is the name of the group, "" for None
Style(name, codes, group) ==
    [cls |-> "Style", name |-> name, codes |-> codes, group |-> group]

\* Color.group: a colour's group follows from its main code
ColorGroup(codes) == IF (codes[1] % 30) >= 10 THEN "Back" ELSE "Fore"

\* BasicColor.parse(name, code)
BasicColorParse(name, code) ==
    [cls |-> "Color", name |-> name, codes |-> <<code>>, group |-> ColorGroup(<<code>>)]

\* ControlCodes.__eq__: two styles are equal when their codes are
StyleEq(a, b) == a.codes = b.codes

\* StyleGroup(name, styles, reset): the styles in insertion order, reset last
StyleGroup(name, styles, reset) ==
    [name |-> name,
     reset |-> [reset EXCEPT !.group = name],
     styles |-> [i \in 1..(Len(styles) + 1) |->
                    IF i <= Len(styles)
                    THEN [styles[i] EXCEPT !.group = name]
                    ELSE [reset EXCEPT !.group = name]]]

U(name, code) == Style(name, <<code>>, "")

\* "f" + str(i) for i in range(9)
FontNames == <<"f0", "f1", "f2", "f3", "f4", "f5", "f6", "f7", "f8">>

\* the groups of the catalog as the module builds them
BuiltinGroups ==
    << StyleGroup("Back", <<>>, U("reset", 49)),
       StyleGroup("Fore", <<>>, U("reset", 39)),
       StyleGroup("Brightness", <<U("bright", 1), U("dim", 2)>>, U("reset", 21)),
       StyleGroup("Decor", <<U("italic", 3), U("fraktur", 20)>>, U("reset", 23)),
       StyleGroup("Underline", <<U("underline", 4)>>, U("reset", 24)),
       StyleGroup("CrossedOut", <<U("crossedOut", 9)>>, U("reset", 29)),
       StyleGroup("Conceal", <<U("conceal", 8)>>, U("reset", 28)),
       StyleGroup("Blink", <<U("slow", 5), U("rapid", 6)>>, U("reset", 25)),
       StyleGroup("Frame", <<U("framed", 51), U("encircled", 52)>>, U("reset", 54)),
       StyleGroup("Overline", <<U("overlined", 53)>>, U("reset", 55)),
       StyleGroup("Ideogram",
                  <<U("singleUnderOrRight", 60), U("doubleUpperOrRight", 61),
                    U("singleOverOrLeft", 62), U("doubleOverOrLeft", 63),
                    U("stress", 64)>>,
                  U("reset", 65)),
       StyleGroup("Font", [i \in 1..9 |-> U(FontNames[i], 10 + i)], U("reset", 10)) >>

\* StyleGroup.addStyle on a group value: a new name is appended, a known one rebound
addStyle(g, style) ==
    LET s == [style EXCEPT !.group = g.name]
        at == {i \in DOMAIN g.styles : g.styles[i].name = style.name}
    IN  IF at = {} THEN [g EXCEPT !.styles = Append(g.styles, s)]
        ELSE [g EXCEPT !.styles = [i \in DOMAIN g.styles |->
                                      IF i \in at THEN s ELSE g.styles[i]]]

\* the colours the tests use, as importColoramaGroup adds them to Back and Fore
ImportedColors ==
    << BasicColorParse("blue", 44), BasicColorParse("lightgreenEx", 102),
       BasicColorParse("red", 31), BasicColorParse("cyan", 36) >>

RECURSIVE importInto(_, _)
importInto(gs, cols) ==
    IF Len(cols) = 0 THEN gs
    ELSE importInto([i \in DOMAIN gs |->
                        IF gs[i].name = cols[1].group THEN addStyle(gs[i], cols[1])
                        ELSE gs[i]],
                    Tail(cols))

\* importGroups(groups)
importGroups(gs) == importInto(gs, ImportedColors)

\* the catalog once the module is loaded
Catalog == importGroups(BuiltinGroups)

\* The catalog is read as the module loaded it: nothing below adds a style to it.

\* iteration over the catalog: the group names in insertion order
GroupOrder == [i \in DOMAIN Catalog |-> Catalog[i].name]

GroupNames == {Catalog[i].name : i \in DOMAIN Catalog}

GroupByName ==
    [gr \in GroupNames |-> Catalog[CHOOSE i \in DOMAIN Catalog : Catalog[i].name = gr]]

\* groups[gr]
Group(gr) == GroupByName[gr]

\* groups[gr][name]
StyleOf(gr, name) ==
    LET g == Group(gr)
    IN  g.styles[CHOOSE i \in DOMAIN g.styles : g.styles[i].name = name]

\* neutral = Style("neutral", ()), a member of neutralGroup
neutral == Style("neutral", <<>>, "Neutral")

----
(* Sheets: a mapping from group names to the active style of each *)

\* Sheet(None): every group of the catalog at its reset
SheetNone == [gr \in GroupNames |-> Group(gr).reset]

\* Sheet() and Sheet({}): no group mentioned
SheetEmpty == [gr \in {} |-> neutral]

\* Sheet(style): the style under the name of its group
SheetOfStyle(style) == [gr \in {style.group} |-> style]

\* neutralSheet = Sheet({name: neutral for name in groups})
neutralSheet == [gr \in GroupNames |-> neutral]

\* Sheet.diff, the body of its loop with the normalisation inverted
diffNormalizeSwapped(o, n, reset) ==
    IF StyleEq(o, neutral) THEN reset ELSE n

\* Sheet.diff, the body of its loop without the normalisation
diffNormalizeDropped(o, n, reset) == n

\* Sheet.diff, lines 540-541: leaving neutral for reset is no change
diffNormalize(o, n, reset) ==
    IF StyleEq(o, neutral) /\ StyleEq(n, reset) THEN neutral ELSE n

\* Sheet.diff, one pass of its loop: the old and the new style of group gr
diffOld(old, gr) == IF gr \in DOMAIN old THEN old[gr] ELSE Group(gr).reset

diffNew(old, new, gr) ==
    diffNormalize(diffOld(old, gr),
                  IF gr \in DOMAIN new THEN new[gr] ELSE Group(gr).reset,
                  Group(gr).reset)

\* Sheet.diff: the patch holds the new style of every group whose style changed
diff(old, new) ==
    LET changed == {gr \in GroupNames :
                       ~StyleEq(diffOld(old, gr), diffNew(old, new, gr))}
    IN  [gr \in changed |-> diffNew(old, new, gr)]

\* Sheet.__sub__
SheetSub(self, other) == diff(other, self)

\* Sheet.__or__: a new sheet, other's entries over self's
SheetOr(self, other) ==
    [gr \in (DOMAIN self) \cup (DOMAIN other) |->
        IF gr \in DOMAIN other THEN other[gr] ELSE self[gr]]

\* Sheet.__add__
SheetAdd(self, other) == SheetOr(self, other)

\* Storage.values of a patch: diff inserts in the order of the catalog
RECURSIVE valuesFrom(_, _)
valuesFrom(sheet, i) ==
    IF i > Len(GroupOrder) THEN <<>>
    ELSE (IF GroupOrder[i] \in DOMAIN sheet THEN <<sheet[GroupOrder[i]]>> ELSE <<>>)
         \o valuesFrom(sheet, i + 1)

values(sheet) == valuesFrom(sheet, 1)

----
(* Sheet operations on operands drawn from a bounded set *)

NoOut == [op |-> "none"]

NoAccum == [cls |-> "None"]

\* the styles a sheet may hold under the i-th group: the group's own, or neutral
ValuesOf(i) == {Catalog[i].styles[j] : j \in DOMAIN Catalog[i].styles} \cup {neutral}

\* every sheet over the first MaxCats groups of the catalog
PartialSheets ==
    UNION {
        {f \in [{GroupOrder[i] : i \in D} ->
                   UNION {ValuesOf(i) : i \in D}] :
            \A i \in D : f[GroupOrder[i]] \in ValuesOf(i)}
        : D \in SUBSET (1..MaxCats)}

SheetOperands == PartialSheets \cup {SheetNone, SheetEmpty, neutralSheet}

\* no Style or StyleGroup object made beside the catalog
CatalogIdle ==
    /\ objs = <<>>
    /\ cats = <<>>

MergeIdle ==
    /\ mbuf = <<>>
    /\ mpos = 0
    /\ accum = NoAccum
    /\ mout = <<>>
    /\ mpc = "idle"

InitSheet ==
    /\ nodes = <<>>
    /\ built = <<>>
    /\ last = NoOut
    /\ shA \in SheetOperands
    /\ shB \in SheetOperands
    /\ shOut = NoOut
    /\ MergeIdle
    /\ CatalogIdle

\* shA.diff(shB)
SheetDiffOp ==
    /\ shOut' = [op |-> "diff", res |-> diff(shA, shB)]
    /\ UNCHANGED <<nodes, built, last, shA, shB, mbuf, mpos, accum, mout, mpc, objs, cats>>

\* shA | shB
SheetOrOp ==
    /\ shOut' = [op |-> "or", res |-> SheetOr(shA, shB)]
    /\ UNCHANGED <<nodes, built, last, shA, shB, mbuf, mpos, accum, mout, mpc, objs, cats>>

\* shA - shB
SheetSubOp ==
    /\ shOut' = [op |-> "sub", res |-> SheetSub(shA, shB)]
    /\ UNCHANGED <<nodes, built, last, shA, shB, mbuf, mpos, accum, mout, mpc, objs, cats>>

NextSheet == SheetDiffOp \/ SheetOrOp \/ SheetSubOp

SpecSheet == InitSheet /\ [][NextSheet]_vars

----
(* Claims about Sheet.__or__ and Sheet.diff *)

\* the style a sheet gives a group: an absent group counts as its reset
Active(sheet, gr) == IF gr \in DOMAIN sheet THEN sheet[gr] ELSE Group(gr).reset

\* a snapshot at reset in every group: Sheet(None), or the empty Sheet()
AtReset(sheet) == sheet = SheetNone \/ sheet = SheetEmpty

\* C8: layering the all-neutral sheet onto any sheet S yields a sheet equal to S
\* in every group.
C8_NeutralAbsorbed ==
    (shOut.op = "or" /\ shB = neutralSheet) =>
        \A gr \in GroupNames : StyleEq(Active(shOut.res, gr), Active(shA, gr))

\* C9 as stated: diff(N, N), diff(N, R) and diff(R, N) hold no entry at all,
\* for N the all-neutral sheet and R a sheet at reset.
C9_AllThreeEmpty ==
    (shOut.op = "diff"
        /\ (shA = neutralSheet \/ AtReset(shA))
        /\ (shB = neutralSheet \/ AtReset(shB))
        /\ (shA = neutralSheet \/ shB = neutralSheet)) =>
        DOMAIN shOut.res = {}

\* C9 as amended: diff(N, N) and diff(N, R) hold no entry; diff(R, N) holds one
\* entry for every group of the catalog, each the neutral style, whose codes are
\* empty, so that it renders to no code.
C9_NeutralDiff ==
    shOut.op = "diff" =>
        /\ (shA = neutralSheet /\ (shB = neutralSheet \/ AtReset(shB))) =>
                DOMAIN shOut.res = {}
        /\ (AtReset(shA) /\ shB = neutralSheet) =>
                /\ DOMAIN shOut.res = GroupNames
                /\ \A gr \in GroupNames : shOut.res[gr] = neutral
                /\ Concat([i \in DOMAIN values(shOut.res) |->
                              ControlCodesStr(values(shOut.res)[i].codes)]) = <<>>

C9_Witness ==
    /\ shOut.op = "diff"
    /\ shA = SheetNone
    /\ shB = neutralSheet
    /\ DOMAIN shOut.res # {}

\* C10: diff(S, S) is the empty patch for every sheet S.
C10_SelfDiffEmpty ==
    (shOut.op = "diff" /\ shA = shB) => DOMAIN shOut.res = {}

C10_Witness ==
    /\ shOut.op = "diff"
    /\ shA = shB
    /\ \E gr \in DOMAIN shA : shA[gr] = neutral
    /\ \E gr \in DOMAIN shA : ~StyleEq(shA[gr], Group(gr).reset) /\ shA[gr] # neutral

----
(* mergeAdjacentCodes, one pass of its loop at a time *)

\* a str token of a stream
Text(chars) == [cls |-> "str", text |-> chars]

\* isinstance(it, ControlCodes): Style and Color are subclasses
IsControlCodes(it) == it.cls \in {"ControlCodes", "Style", "Color"}

\* ControlCodes.__add__
ControlCodesAdd(self, other) == ControlCodes(self.codes \o other.codes)

\* Style.__add__ reads other.group: a bare ControlCodes has no such attribute
AddRaises(self, other) == self.cls # "ControlCodes" /\ other.cls = "ControlCodes"

\* Style.__add__: a Style of the common group, else bare ControlCodes
StyleAdd(self, other) ==
    IF self.group = other.group
    THEN Style(self.name \o "&" \o other.name, self.codes \o other.codes, self.group)
    ELSE ControlCodes(self.codes \o other.codes)

\* accum += it: the __add__ of accum's class
Add(self, other) ==
    IF self.cls = "ControlCodes" THEN ControlCodesAdd(self, other)
    ELSE StyleAdd(self, other)

\* the loop body for a control code token that overwrites the accumulator
MergeAccumulateOverwriting(acc, it) == it

\* the loop body for a control code token, lines 591-594
MergeAccumulate(acc, it) == IF acc = NoAccum THEN it ELSE Add(acc, it)

\* one pass of the loop `for it in buf`
MergeStep ==
    /\ mpc = "loop"
    /\ mpos < Len(mbuf)
    /\ LET it == mbuf[mpos + 1]
       IN  IF IsControlCodes(it)
           THEN IF accum # NoAccum /\ AddRaises(accum, it)
                THEN /\ mpc' = "raised"
                     /\ UNCHANGED <<accum, mout>>
                ELSE /\ accum' = MergeAccumulate(accum, it)
                     /\ UNCHANGED <<mout, mpc>>
           ELSE /\ mout' = (IF accum # NoAccum THEN Append(mout, accum) ELSE mout)
                               \o <<it>>
                /\ accum' = NoAccum
                /\ UNCHANGED mpc
    /\ mpos' = mpos + 1
    /\ UNCHANGED <<nodes, built, last, shA, shB, shOut, mbuf, objs, cats>>

\* after the loop: the accumulator is flushed and the generator ends
MergeEnd ==
    /\ mpc = "loop"
    /\ mpos = Len(mbuf)
    /\ mout' = IF accum # NoAccum THEN Append(mout, accum) ELSE mout
    /\ accum' = NoAccum
    /\ mpc' = "done"
    /\ UNCHANGED <<nodes, built, last, shA, shB, shOut, mbuf, mpos, objs, cats>>

\* the tokens of the bounded streams
MergeTokens ==
    { Text(<<"1">>),
      StyleOf("Fore", "red"), StyleOf("Fore", "cyan"), StyleOf("Back", "blue"),
      neutral, ControlCodes(<<1>>) }

\* tests.py, testCodeMerger1
MergerTestData ==
    << Text(<<"1">>), StyleOf("Fore", "red"), StyleOf("Back", "blue"), Text(<<"2">>),
       StyleOf("Back", "lightgreenEx"), Text(<<"3">>), StyleOf("Back", "blue"),
       Text(<<"4">>), StyleOf("Fore", "reset"), StyleOf("Back", "reset"),
       Text(<<"5">>) >>

MergeStreams ==
    UNION {[1..n -> MergeTokens] : n \in 0..MaxToks} \cup {MergerTestData}

InitMerge ==
    /\ nodes = <<>>
    /\ built = <<>>
    /\ last = NoOut
    /\ shA = SheetEmpty
    /\ shB = SheetEmpty
    /\ shOut = NoOut
    /\ mbuf \in MergeStreams
    /\ mpos = 0
    /\ accum = NoAccum
    /\ mout = <<>>
    /\ mpc = "loop"
    /\ CatalogIdle

NextMerge == MergeStep \/ MergeEnd

SpecMerge == InitMerge /\ [][NextMerge]_vars

----
(* A terminal, for the claims about what the output does: every group of   *)
(* the catalog is in the state of the last style of that group it was sent *)

TermReset == [gr \in GroupNames |-> Group(gr).reset.codes]

\* the groups a single code belongs to: by the catalog, or a basic colour's range
CodeGroupsOf ==
    [c \in 0..107 |->
        {gr \in GroupNames :
            \E j \in DOMAIN Group(gr).styles : Group(gr).styles[j].codes = <<c>>}
        \cup (IF c \in (30..37) \cup (90..97) THEN {"Fore"} ELSE {})
        \cup (IF c \in (40..47) \cup (100..107) THEN {"Back"} ELSE {})]

CodeGroups(c) == IF c \in DOMAIN CodeGroupsOf THEN CodeGroupsOf[c] ELSE {}

\* how many codes the style starting a code list takes: 38;5;n and 38;2;r;g;b
StyleLen(codes) ==
    IF codes[1] \in {38, 48} /\ Len(codes) >= 3 /\ codes[2] = 5 THEN 3
    ELSE IF codes[1] \in {38, 48} /\ Len(codes) >= 5 /\ codes[2] = 2 THEN 5
    ELSE 1

RECURSIVE TermApply(_, _)
TermApply(term, codes) ==
    IF Len(codes) = 0 THEN term
    ELSE LET n == StyleLen(codes)
             val == SubSeq(codes, 1, n)
             grs == IF n > 1 THEN {ColorGroup(val)} ELSE CodeGroups(codes[1])
         IN  TermApply([gr \in GroupNames |-> IF gr \in grs THEN val ELSE term[gr]],
                       SubSeq(codes, n + 1, Len(codes)))

\* the terminal states at the text tokens of a stream, then the state at its end
RECURSIVE TermTrace(_, _)
TermTrace(term, buf) ==
    IF Len(buf) = 0 THEN <<term>>
    ELSE IF buf[1].cls = "str" THEN <<term>> \o TermTrace(term, Tail(buf))
    ELSE TermTrace(TermApply(term, buf[1].codes), Tail(buf))

IsText(tok) == tok.cls = "str"

\* the control code tokens before the first text, between the texts, after the last
RECURSIVE Gaps(_)
Gaps(buf) ==
    IF Len(buf) = 0 THEN << <<>> >>
    ELSE IF IsText(buf[1]) THEN << <<>> >> \o Gaps(Tail(buf))
    ELSE LET g == Gaps(Tail(buf)) IN << <<buf[1]>> \o g[1] >> \o Tail(g)

\* the codes of a sequence of control code tokens, in order
CodesOf(toks) == Concat([i \in DOMAIN toks |-> toks[i].codes])

\* out is buf with every run of adjacent control codes merged into one token
MergedFrom(out, buf) ==
    /\ SelectSeq(out, IsText) = SelectSeq(buf, IsText)
    /\ Len(Gaps(out)) = Len(Gaps(buf))
    /\ \A k \in DOMAIN Gaps(buf) :
          /\ Len(Gaps(out)[k]) = (IF Len(Gaps(buf)[k]) > 0 THEN 1 ELSE 0)
          /\ CodesOf(Gaps(out)[k]) = CodesOf(Gaps(buf)[k])
    /\ TermTrace(TermReset, out) = TermTrace(TermReset, buf)

\* C7: for every stream of text and control code tokens mergeAdjacentCodes ends
\* with the texts unchanged and in order, every maximal run of adjacent control
\* codes replaced by one token holding the run's codes in order, no two control
\* codes adjacent, and the same terminal state at every text.
C7_MergerCorrect ==
    mpc \in {"done", "raised"} => (mpc = "done" /\ MergedFrom(mout, mbuf))

\* what does hold: a call that ends without raising has merged its stream
MergeCorrectUnlessRaised == mpc = "done" => MergedFrom(mout, mbuf)

MergeRunOfThree ==
    /\ mpc = "done"
    /\ \E k \in DOMAIN Gaps(mbuf) : Len(Gaps(mbuf)[k]) >= 3

----
(* RichStr: the tree, its flattening and its rendering.  A RichStr is an   *)
(* entry of nodes; a substring is a str token or a reference to a RichStr. *)
(* A traversal returns what it yields and the objects as it leaves them.   *)

\* the value of a set of one value: binds the result of a call to a name
The(S) == CHOOSE x \in S : TRUE

\* a RichStr among the substrings of another
Ref(id) == [cls |-> "RichStr", id |-> id]

\* a Sheet token of the flat representation
SheetTok(sheet) == [cls |-> "Sheet", sheet |-> sheet]

\* RichStr.__init__: sheet is None, a Style or a Sheet
RichStrInit(args, sheet) ==
    [sheet |-> IF sheet.cls = "None" THEN SheetEmpty
               ELSE IF sheet.cls = "Sheet" THEN sheet.sheet
               ELSE SheetOfStyle(sheet),
     subStrs |-> args]

\* RichStr.dfs, line 630, with the layered sheet kept as the node's own
dfsLayerPersisting(heap, n, sheet) ==
    [sheet |-> SheetAdd(sheet, heap[n].sheet),
     heap |-> [heap EXCEPT ![n].sheet = SheetAdd(sheet, heap[n].sheet)]]

\* RichStr.dfs, line 630, with the node's own sheet alone, the inherited one dropped
dfsLayerOwnOnly(heap, n, sheet) ==
    [sheet |-> heap[n].sheet, heap |-> heap]

\* RichStr.dfs, line 630: a copy of the inherited sheet, the node's own over it
dfsLayer(heap, n, sheet) ==
    [sheet |-> SheetAdd(sheet, heap[n].sheet), heap |-> heap]

RECURSIVE dfs(_, _, _)
RECURSIVE dfsSubStrs(_, _, _, _)

\* RichStr.dfs, the loop over self.subStrs from the i-th on
dfsSubStrs(heap, n, sheet, i) ==
    IF i > Len(heap[n].subStrs) THEN [buf |-> <<>>, heap |-> heap]
    ELSE The({ The({ [buf |-> head.buf \o rest.buf, heap |-> rest.heap] :
                        rest \in {dfsSubStrs(head.heap, n, sheet, i + 1)} }) :
                 head \in {IF heap[n].subStrs[i].cls = "RichStr"
                           THEN dfs(heap, heap[n].subStrs[i].id, sheet)
                           ELSE [buf |-> <<SheetTok(sheet), heap[n].subStrs[i]>>,
                                 heap |-> heap]} })

\* RichStr.dfs
dfs(heap, n, sheet) ==
    The({ dfsSubStrs(own.heap, n, own.sheet, 1) : own \in {dfsLayer(heap, n, sheet)} })

\* RichStr.sheetRepr
sheetRepr(heap, n) ==
    The({ [buf |-> Append(flat.buf, SheetTok(SheetNone)), heap |-> flat.heap] :
            flat \in {dfs(heap, n, SheetNone)} })

\* optimizeSheetsToCodes, its loop from the i-th token on and the diff after it
RECURSIVE optimizeFrom(_, _, _, _)
optimizeFrom(buf, i, state, prevState) ==
    IF i > Len(buf) THEN values(SheetSub(SheetEmpty, prevState))
    ELSE IF buf[i].cls = "Sheet"
         THEN optimizeFrom(buf, i + 1, buf[i].sheet, prevState)
         ELSE values(SheetSub(state, prevState)) \o <<buf[i]>>
              \o optimizeFrom(buf, i + 1, state, state)

\* optimizeSheetsToCodes: initialState, state and prevState start as Sheet()
optimizeSheetsToCodes(buf) == optimizeFrom(buf, 1, SheetEmpty, SheetEmpty)

\* mergeAdjacentCodes as the list of what it yields
RECURSIVE mergeFrom(_, _, _)
mergeFrom(buf, i, acc) ==
    IF i > Len(buf) THEN (IF acc # NoAccum THEN <<acc>> ELSE <<>>)
    ELSE IF IsControlCodes(buf[i])
         THEN mergeFrom(buf, i + 1, MergeAccumulate(acc, buf[i]))
         ELSE (IF acc # NoAccum THEN <<acc>> ELSE <<>>) \o <<buf[i]>>
              \o mergeFrom(buf, i + 1, NoAccum)

mergeAdjacentCodes(buf) == mergeFrom(buf, 1, NoAccum)

\* the module's switch
mergeCodes == TRUE

\* RichStr.optimizedCodeRepr
optimizedCodeRepr(heap, n) ==
    The({ The({ [buf |-> IF mergeCodes THEN mergeAdjacentCodes(codes) ELSE codes,
                  heap |-> flat.heap] :
                 codes \in {optimizeSheetsToCodes(flat.buf)} }) :
            flat \in {sheetRepr(heap, n)} })

\* str(it) of a token of the optimized representation
TokStr(it) == IF it.cls = "str" THEN it.text ELSE ControlCodesStr(it.codes)

\* RichStr.__str__
RichStrStr(heap, n) ==
    The({ [res |-> Concat([i \in DOMAIN repr.buf |-> TokStr(repr.buf[i])]),
           heap |-> repr.heap] :
            repr \in {optimizedCodeRepr(heap, n)} })

\* RichStr.plain with the control codes left in
plainWithCodes(heap, n) == RichStrStr(heap, n)

\* RichStr.plain
plain(heap, n) ==
    The({ The({ [res |-> Concat([i \in DOMAIN strs |-> strs[i].text]),
                  heap |-> flat.heap] :
                 strs \in {SelectSeq(flat.buf, IsText)} }) :
            flat \in {sheetRepr(heap, n)} })

----
(* Building and rendering RichStr objects *)

None == [cls |-> "None"]

Chars3(c) == <<c, c, c>>

\* the sheet arguments the constructor is given
SheetArgs == { None, StyleOf("Fore", "red"), SheetTok(neutralSheet) }

\* the str arguments the constructor is given
TextArgs == { Text(<<"a">>) }

\* tests.py, Tests.reference: the nested tree, the one chained with + around the
\* nested red node, and the one chained with + from separately styled nodes
ReferencePool ==
    << RichStrInit(<<Text(Chars3("G"))>>, StyleOf("Back", "lightgreenEx")),
       RichStrInit(<<Text(Chars3("R")), Ref(1), Text(Chars3("r"))>>, StyleOf("Fore", "red")),
       RichStrInit(<<Text(Chars3("D")), Ref(2), Text(Chars3("d"))>>, None),
       RichStrInit(<<Text(Chars3("D")), Ref(2)>>, None),
       RichStrInit(<<Ref(4), Text(Chars3("d"))>>, None),
       RichStrInit(<<Text(Chars3("R"))>>, StyleOf("Fore", "red")),
       RichStrInit(<<Text(Chars3("D")), Ref(6)>>, None),
       RichStrInit(<<Ref(1)>>, StyleOf("Fore", "red")),
       RichStrInit(<<Ref(7), Ref(8)>>, None),
       RichStrInit(<<Text(Chars3("r"))>>, StyleOf("Fore", "red")),
       RichStrInit(<<Ref(9), Ref(10)>>, None),
       RichStrInit(<<Ref(11), Text(Chars3("d"))>>, None) >>

\* tests.py, Tests.testSideEffects: order[0..3]
SideEffectsPool ==
    << RichStrInit(<<Text(Chars3("G"))>>, StyleOf("Back", "lightgreenEx")),
       RichStrInit(<<Text(Chars3("C"))>>, StyleOf("Fore", "cyan")),
       RichStrInit(<<Text(Chars3("R")), Ref(1), Text(Chars3("r")), Ref(2),
                     Text(Chars3("R"))>>, StyleOf("Fore", "red")),
       RichStrInit(<<Text(Chars3("D")), Ref(3), Text(Chars3("d"))>>, None) >>

\* a RichStr of a str that itself holds a control code
ControlTextPool == << RichStrInit(<<Text(<<"ESC", "[", "1", "m">>)>>, None) >>

Init ==
    /\ nodes \in {<<>>, ReferencePool, SideEffectsPool, ControlTextPool}
    /\ built = nodes
    /\ last = NoOut
    /\ shA = SheetEmpty
    /\ shB = SheetEmpty
    /\ shOut = NoOut
    /\ MergeIdle
    /\ CatalogIdle

\* RichStr(*args, sheet=sheet): the arguments are strs and RichStrs built before
NewRichStr ==
    /\ Len(nodes) < MaxNodes
    /\ \E k \in 0..MaxArgs :
         \E args \in [1..k -> TextArgs \cup {Ref(i) : i \in DOMAIN nodes}] :
           \E sheet \in SheetArgs :
             /\ nodes' = Append(nodes, RichStrInit(args, sheet))
             /\ built' = Append(built, RichStrInit(args, sheet))
    /\ UNCHANGED <<last, shA, shB, shOut, mbuf, mpos, accum, mout, mpc, objs, cats>>

\* str(nodes[n])
StrOp ==
    /\ \E n \in DOMAIN nodes :
         \E r \in {RichStrStr(nodes, n)} :
             /\ last' = [op |-> "str", node |-> n, res |-> r.res]
             /\ nodes' = r.heap
    /\ UNCHANGED <<built, shA, shB, shOut, mbuf, mpos, accum, mout, mpc, objs, cats>>

\* nodes[n].plain()
PlainOp ==
    /\ \E n \in DOMAIN nodes :
         \E r \in {plain(nodes, n)} :
             /\ last' = [op |-> "plain", node |-> n, res |-> r.res]
             /\ nodes' = r.heap
    /\ UNCHANGED <<built, shA, shB, shOut, mbuf, mpos, accum, mout, mpc, objs, cats>>

Next == NewRichStr \/ StrOp \/ PlainOp

Spec == Init /\ [][Next]_vars

----
(* What a terminal makes of a rendered string, and the string without its   *)
(* escape sequences: ESC [ n (;n)* m                                         *)

\* the first index from j on that holds neither a digit nor ";"
RECURSIVE EscBodyEnd(_, _)
EscBodyEnd(chars, j) ==
    IF j > Len(chars) \/ chars[j] \notin (Digits \cup {";"}) THEN j
    ELSE EscBodyEnd(chars, j + 1)

ValidBody(b) ==
    /\ Len(b) > 0
    /\ b[1] # ";"
    /\ b[Len(b)] # ";"
    /\ \A k \in 1..(Len(b) - 1) : ~(b[k] = ";" /\ b[k + 1] = ";")

\* the index of the "m" ending the escape sequence that starts at i, 0 if none does
EscEnd(chars, i) ==
    IF i + 1 > Len(chars) \/ chars[i] # "ESC" \/ chars[i + 1] # "[" THEN 0
    ELSE LET j == EscBodyEnd(chars, i + 2)
         IN  IF j <= Len(chars) /\ chars[j] = "m" /\ ValidBody(SubSeq(chars, i + 2, j - 1))
             THEN j ELSE 0

DigitVal(c) == CHOOSE d \in 0..9 : Digit[d + 1] = c

\* the integers of n;n;...;n
RECURSIVE ParseInts(_, _, _)
ParseInts(b, i, cur) ==
    IF i > Len(b) THEN <<cur>>
    ELSE IF b[i] = ";" THEN <<cur>> \o ParseInts(b, i + 1, 0)
    ELSE ParseInts(b, i + 1, 10 * cur + DigitVal(b[i]))

\* the string with every escape sequence removed
RECURSIVE StripCodes(_, _)
StripCodes(chars, i) ==
    IF i > Len(chars) THEN <<>>
    ELSE IF EscEnd(chars, i) > 0 THEN StripCodes(chars, EscEnd(chars, i) + 1)
    ELSE <<chars[i]>> \o StripCodes(chars, i + 1)

\* the terminal fed chars from the i-th on: the state at every printed character
\* (trace), the state at the end (term), the codes since the last printed one (tail)
RECURSIVE Replay(_, _, _, _, _)
Replay(chars, i, term, tail, trace) ==
    IF i > Len(chars) THEN [trace |-> trace, term |-> term, tail |-> tail]
    ELSE LET e == EscEnd(chars, i)
         IN  IF e > 0
             THEN LET codes == ParseInts(SubSeq(chars, i + 2, e - 1), 1, 0)
                  IN  Replay(chars, e + 1, TermApply(term, codes), tail \o codes, trace)
             ELSE Replay(chars, i + 1, term, <<>>, Append(trace, term))

Terminal(chars) == Replay(chars, 1, TermReset, <<>>, <<>>)

\* the groups some code of a code list sets
GroupsSet(codes) ==
    LET mark == [gr \in GroupNames |-> <<-1>>]
    IN  {gr \in GroupNames : TermApply(mark, codes)[gr] # <<-1>>}

----
(* The tree as the claims speak of it: its text leaves in depth-first order, *)
(* each with the nodes above it, root first                                  *)

RECURSIVE LeavesOf(_, _, _)
RECURSIVE LeavesFrom(_, _, _, _)

LeavesFrom(heap, n, path, i) ==
    IF i > Len(heap[n].subStrs) THEN <<>>
    ELSE (IF heap[n].subStrs[i].cls = "RichStr"
          THEN LeavesOf(heap, heap[n].subStrs[i].id, path)
          ELSE << [path |-> path, text |-> heap[n].subStrs[i].text] >>)
         \o LeavesFrom(heap, n, path, i + 1)

LeavesOf(heap, n, path) == LeavesFrom(heap, n, Append(path, n), 1)

Leaves(heap, n) == LeavesOf(heap, n, <<>>)

\* the effective style of a group under a path: the deepest sheet that mentions the
\* group decides, and a group none mentions is at its reset
Effective(heap, path, gr) ==
    LET at == {k \in DOMAIN path : gr \in DOMAIN heap[path[k]].sheet}
    IN  IF at = {} THEN Group(gr).reset
        ELSE heap[path[CHOOSE k \in at : \A j \in at : j <= k]].sheet[gr]

EffectiveSheet(heap, path) == [gr \in GroupNames |-> Effective(heap, path, gr).codes]

\* the effective snapshot and the text of every text run, in depth-first order
EffectiveRuns(heap, n) ==
    [k \in DOMAIN Leaves(heap, n) |->
        [sheet |-> EffectiveSheet(heap, Leaves(heap, n)[k].path),
         text |-> Leaves(heap, n)[k].text]]

\* the text leaves joined
LeafText(heap, n) ==
    Concat([k \in DOMAIN Leaves(heap, n) |-> Leaves(heap, n)[k].text])

\* the nodes of the tree under n
RECURSIVE TreeNodes(_, _)
TreeNodes(heap, n) ==
    {n} \cup UNION {TreeNodes(heap, heap[n].subStrs[i].id) :
                     i \in {j \in DOMAIN heap[n].subStrs : heap[n].subStrs[j].cls = "RichStr"}}

\* the groups some sheet of the tree mentions
Touched(heap, n) ==
    {gr \in GroupNames : \E m \in TreeNodes(heap, n) : gr \in DOMAIN heap[m].sheet}

\* no text of the tree holds an escape character
PlainTexts(heap, n) == \A k \in DOMAIN LeafText(heap, n) : LeafText(heap, n)[k] # "ESC"

\* no sheet of the tree holds the neutral style
NoNeutral(heap, n) ==
    \A m \in TreeNodes(heap, n) : \A gr \in DOMAIN heap[m].sheet : heap[m].sheet[gr] # neutral

----
(* Claims about the rendered string *)

Rendered == last.op = "str"

\* C1: when the rendered string of a tree is fed to a terminal at reset, at the end
\* every group that a sheet of the tree set is back at its reset, and the codes
\* after the last text hold none of a group that no sheet of the tree mentions.
C1_FinalReset ==
    (Rendered /\ PlainTexts(built, last.node)) =>
        LET t == Terminal(last.res)
        IN  \A gr \in GroupNames :
              IF gr \in Touched(built, last.node)
              THEN t.term[gr] = Group(gr).reset.codes
              ELSE gr \notin GroupsSet(t.tail)

\* what does hold of the end of the output: the same, for a tree without neutral
FinalResetWithoutNeutral ==
    (Rendered /\ PlainTexts(built, last.node) /\ NoNeutral(built, last.node)) =>
        LET t == Terminal(last.res)
        IN  \A gr \in GroupNames :
              IF gr \in Touched(built, last.node)
              THEN t.term[gr] = Group(gr).reset.codes
              ELSE gr \notin GroupsSet(t.tail)

\* the effective snapshot of every character of the text runs, in order
ExpectedTrace(heap, n) ==
    Concat([k \in DOMAIN EffectiveRuns(heap, n) |->
               [j \in 1..Len(EffectiveRuns(heap, n)[k].text) |->
                   EffectiveRuns(heap, n)[k].sheet]])

\* the terminal shows a style: neutral has no codes of its own and asks for nothing
Shows(state, codes) == codes = <<>> \/ state = codes

\* C2: when the rendered string is fed to a terminal at reset, every character of
\* every text run is printed with each group in the state of the run's effective
\* snapshot.
C2_StateMatchesSnapshot ==
    (Rendered /\ PlainTexts(built, last.node)) =>
        LET t == Terminal(last.res)
            e == ExpectedTrace(built, last.node)
        IN  /\ Len(t.trace) = Len(e)
            /\ \A k \in DOMAIN e : \A gr \in GroupNames : Shows(t.trace[k][gr], e[k][gr])

\* what does hold of the states of the terminal: the same, for a tree without neutral
StateMatchesWithoutNeutral ==
    (Rendered /\ PlainTexts(built, last.node) /\ NoNeutral(built, last.node)) =>
        LET t == Terminal(last.res)
            e == ExpectedTrace(built, last.node)
        IN  /\ Len(t.trace) = Len(e)
            /\ \A k \in DOMAIN e : \A gr \in GroupNames : t.trace[k][gr] = e[k][gr]

\* a group's value differs between two snapshots; with norm, going from neutral to
\* the group's reset is no change
Differs(gr, o, n, norm) ==
    /\ o # n
    /\ ~(norm /\ o = <<>> /\ n = Group(gr).reset.codes)

\* the codes of the groups that differ, one group after the other in catalog order
RECURSIVE ChangedCodes(_, _, _, _)
ChangedCodes(prev, next, norm, i) ==
    IF i > Len(GroupOrder) THEN <<>>
    ELSE (IF Differs(GroupOrder[i], prev[GroupOrder[i]], next[GroupOrder[i]], norm)
          THEN next[GroupOrder[i]] ELSE <<>>)
         \o ChangedCodes(prev, next, norm, i + 1)

\* the output up to the end of the last text run: before each run one escape
\* sequence of the codes of the groups that differ from the run before
RECURSIVE ExpectedOutput(_, _, _, _)
ExpectedOutput(runs, k, prev, norm) ==
    IF k > Len(runs) THEN <<>>
    ELSE ControlCodesStr(ChangedCodes(prev, runs[k].sheet, norm, 1))
         \o runs[k].text
         \o ExpectedOutput(runs, k + 1, runs[k].sheet, norm)

StartsWith(chars, prefix) ==
    Len(chars) >= Len(prefix) /\ SubSeq(chars, 1, Len(prefix)) = prefix

\* tests.py line 46: DDD [31 RRR [102 GGG [49 rrr [39 ddd
ReferenceString ==
    Chars3("D") \o <<"ESC", "[", "3", "1", "m">> \o Chars3("R")
    \o <<"ESC", "[", "1", "0", "2", "m">> \o Chars3("G")
    \o <<"ESC", "[", "4", "9", "m">> \o Chars3("r")
    \o <<"ESC", "[", "3", "9", "m">> \o Chars3("d")

ReferenceRendered ==
    (Rendered /\ built = ReferencePool /\ last.node \in {3, 5, 12}) =>
        last.res = ReferenceString

C4_PlainIsStripped ==
    last.op = "plain" =>
        /\ last.res = StripCodes(RichStrStr(built, last.node).res, 1)
        /\ last.res = LeafText(built, last.node)

\* C4 as amended: plain() is the text leaves joined in depth-first order; when the
\* joined text holds no escape sequence of its own, it is the rendered string with
\* every escape sequence removed.
C4_PlainIsStrippedOfOwnCodes ==
    last.op = "plain" =>
        /\ last.res = LeafText(built, last.node)
        /\ (StripCodes(LeafText(built, last.node), 1) = LeafText(built, last.node)) =>
               last.res = StripCodes(RichStrStr(built, last.node).res, 1)

C4_Witness ==
    /\ last.op = "plain"
    /\ Len(Leaves(built, last.node)) >= 2
    /\ StripCodes(last.res, 1) = last.res
    /\ RichStrStr(built, last.node).res # last.res

NestedPair(heap, n) ==
    /\ Len(heap[n].subStrs) = 1
    /\ heap[n].subStrs[1].cls = "RichStr"
    /\ Len(heap[heap[n].subStrs[1].id].subStrs) = 1
    /\ heap[heap[n].subStrs[1].id].subStrs[1].cls = "str"

\* the single node that gives the text of a nested pair the two sheets layered
Flattened(heap, n) ==
    << [sheet |-> SheetOr(heap[n].sheet, heap[heap[n].subStrs[1].id].sheet),
        subStrs |-> heap[heap[n].subStrs[1].id].subStrs] >>

\* C6: a node with sheet A around a node with sheet B around a text renders to the
\* string of one node with the sheet A | B around the text; and two trees with the
\* same effective snapshots and texts in depth-first order render to one string.
C6_NestingIsLayering ==
    Rendered =>
        /\ NestedPair(built, last.node) =>
               last.res = RichStrStr(Flattened(built, last.node), 1).res
        /\ \A m \in DOMAIN built :
               EffectiveRuns(built, m) = EffectiveRuns(built, last.node) =>
                   RichStrStr(built, m).res = last.res

C6_Witness ==
    /\ Rendered
    /\ NestedPair(built, last.node)
    /\ built[last.node].sheet # SheetEmpty
    /\ built[built[last.node].subStrs[1].id].sheet # SheetEmpty
    /\ \E m \in DOMAIN built :
          /\ built[m] # built[last.node]
          /\ EffectiveRuns(built, m) = EffectiveRuns(built, last.node)

----
(* ControlCodes: construction and rendering of a sequence of control codes *)

\* the length of the code tuples handed to ControlCodes
MaxCodes == 3

\* the integers the code tuples are made of
CodeValues == {0, 1, 31, 39, 102}

\* the tuples of integers handed to ControlCodes
CodeTuples == UNION {[1..n -> CodeValues] : n \in 0..MaxCodes}

\* ControlCodes.__init__: an argument that is no tuple becomes a tuple of one
ControlCodesInit(isTuple, codes) == ControlCodes(IF isTuple THEN codes ELSE <<codes>>)

InitCodes ==
    /\ nodes = <<>>
    /\ built = <<>>
    /\ last = NoOut
    /\ shA = SheetEmpty
    /\ shB = SheetEmpty
    /\ shOut = NoOut
    /\ MergeIdle
    /\ CatalogIdle

\* str(ControlCodes(arg)), arg a tuple of integers or a bare integer
ControlCodesStrOp ==
    /\ \E cc \in {ControlCodesInit(TRUE, c) : c \in CodeTuples}
                 \cup {ControlCodesInit(FALSE, c) : c \in CodeValues} :
         last' = [op |-> "codes", codes |-> cc.codes, res |-> ControlCodesStr(cc.codes)]
    /\ UNCHANGED <<nodes, built, shA, shB, shOut, mbuf, mpos, accum, mout, mpc, objs, cats>>

NextCodes == ControlCodesStrOp

SpecCodes == InitCodes /\ [][NextCodes]_vars

\* the number of characters of str(n)
NumDigits(n) == IF n < 10 THEN 1 ELSE IF n < 100 THEN 2 ELSE 3

RECURSIVE SumDigits(_)
SumDigits(codes) ==
    IF Len(codes) = 0 THEN 0 ELSE NumDigits(codes[1]) + SumDigits(Tail(codes))

\* chars is ESC [ then the integers of codes in order with ";" between them, then m
IsEscapeOf(chars, codes) ==
    /\ Len(chars) = 3 + SumDigits(codes) + (Len(codes) - 1)
    /\ EscEnd(chars, 1) = Len(chars)
    /\ ParseInts(SubSeq(chars, 3, Len(chars) - 1), 1, 0) = codes

AllZero(codes) == \A i \in DOMAIN codes : codes[i] = 0

\* C11: a code sequence that is empty or holds only zeros renders as the empty
\* string; every other one renders as ESC[ then its integers joined by ";" in
\* order, then "m".
C11_RendersCodes ==
    last.op = "codes" =>
        IF AllZero(last.codes) THEN last.res = <<>>
        ELSE IsEscapeOf(last.res, last.codes)

\* what does hold: the empty sequence alone renders as the empty string, every
\* other one, zeros included, as its escape sequence
RendersNonEmptyCodes ==
    last.op = "codes" =>
        IF last.codes = <<>> THEN last.res = <<>>
        ELSE IsEscapeOf(last.res, last.codes)

----
(* The catalog as objects: a StyleGroup maps names to Style objects, a Style *)
(* object is held by reference and carries its group.  objs[o].group is the  *)
(* index of a StyleGroup in cats, 0 for None.                                *)

\* the number of Style objects
MaxObjs == 7
\* the number of StyleGroup objects
MaxGroups == 4
\* the number of styles handed to one StyleGroup constructor call
MaxGroupStyles == 1
\* the number of calls made on the catalog
MaxCalls == 3

\* groups.Back and groups.Fore among the StyleGroup objects
BackId == 1
ForeId == 2

\* Style(name, codes) and BasicColor.parse(name, code) as objects, group None
NewStyle(name, codes) == [Style(name, codes, "") EXCEPT !.group = 0]
NewColor(name, code) == [BasicColorParse(name, code) EXCEPT !.group = 0]

\* style.group: an attribute of a Style, a property of a Color (lines 294-296)
GroupOf(o) ==
    IF o.cls = "Color"
    THEN (IF ColorGroup(o.codes) = "Back" THEN BackId ELSE ForeId)
    ELSE o.group

\* Color.bg = val: setNumeric moves the main code by backgroundOffset
SetBg(codes, val) ==
    [codes EXCEPT ![1] = codes[1] + ((IF val THEN 1 ELSE 0)
                                     - (IF ColorGroup(codes) = "Back" THEN 1 ELSE 0)) * 10]

\* style.group = c: plain assignment for a Style, the setter of lines 298-308 for a
\* Color, which raises for any group but groups.Back and groups.Fore
SetGroup(o, c) ==
    IF o.cls # "Color" THEN [obj |-> [o EXCEPT !.group = c], raised |-> FALSE]
    ELSE IF c = BackId THEN [obj |-> [o EXCEPT !.codes = SetBg(o.codes, TRUE)], raised |-> FALSE]
    ELSE IF c = ForeId THEN [obj |-> [o EXCEPT !.codes = SetBg(o.codes, FALSE)], raised |-> FALSE]
    ELSE [obj |-> o, raised |-> TRUE]

\* Storage.__setitem__
Bind(map, key, val) ==
    [k \in (DOMAIN map) \cup {key} |-> IF k = key THEN val ELSE map[k]]

\* StyleGroup.addStyle(style) on group c with object o: the name is bound first,
\* then the group of the style is set
AddStyleTo(st, c, o) ==
    [objs |-> [st.objs EXCEPT ![o] = SetGroup(st.objs[o], c).obj],
     cats |-> [st.cats EXCEPT ![c].map = Bind(st.cats[c].map, st.objs[o].name, o)],
     raised |-> SetGroup(st.objs[o], c).raised]

\* StyleGroup.__init__, the loop `for style in styles` from the i-th on
RECURSIVE AddStyles(_, _, _, _)
AddStyles(st, c, styles, i) ==
    IF i > Len(styles) \/ st.raised THEN st
    ELSE The({ AddStyles(nxt, c, styles, i + 1) : nxt \in {AddStyleTo(st, c, styles[i])} })

\* StyleGroup.__init__, lines 137-139: self.reset = reset, self.addStyle(reset)
AddReset(st, c, reset) ==
    IF st.raised \/ reset = 0 THEN st
    ELSE The({ AddStyleTo(bound, c, reset) :
                 bound \in {[st EXCEPT !.cats[c].map = Bind(st.cats[c].map, "reset", reset)]} })

\* StyleGroup(name, styles, reset) as the next object of cats; reset is an object,
\* 0 for None, -1 for a value that is no Style (TypeError before anything is done)
StyleGroupInit(st, name, styles, reset) ==
    IF reset = -1 THEN [st EXCEPT !.raised = TRUE]
    ELSE The({ [done EXCEPT !.cats[Len(st.cats) + 1].name = IF done.raised THEN "" ELSE name,
                            !.cats[Len(st.cats) + 1].ok = ~done.raised] :
                 done \in {AddReset(AddStyles([st EXCEPT !.cats = Append(st.cats,
                                                     [name |-> "", map |-> SheetEmpty, ok |-> FALSE])],
                                               Len(st.cats) + 1, styles, 1),
                                     Len(st.cats) + 1, reset)} })

\* the objects of a group of the catalog, numbered from base + 1
GroupObjs(g, id) ==
    [j \in DOMAIN g.styles |->
        [g.styles[j] EXCEPT !.group = IF g.styles[j].cls = "Color" THEN 0 ELSE id]]

GroupCat(g, base) ==
    [name |-> g.name,
     map |-> [k \in {g.styles[j].name : j \in DOMAIN g.styles} |->
                 base + (CHOOSE j \in DOMAIN g.styles : g.styles[j].name = k)],
     ok |-> TRUE]

\* groups.Back with its reset, groups.Fore with its reset and red, groups.Brightness
InitObjs ==
    GroupObjs(BuiltinGroups[1], BackId)
    \o GroupObjs(addStyle(BuiltinGroups[2], BasicColorParse("red", 31)), ForeId)
    \o GroupObjs(BuiltinGroups[3], 3)

InitCats ==
    << GroupCat(BuiltinGroups[1], 0),
       GroupCat(addStyle(BuiltinGroups[2], BasicColorParse("red", 31)), 1),
       GroupCat(BuiltinGroups[3], 3) >>

InitCatalog ==
    /\ nodes = <<>>
    /\ built = <<>>
    /\ last = [op |-> "none", n |-> 0]
    /\ shA = SheetEmpty
    /\ shB = SheetEmpty
    /\ shOut = NoOut
    /\ MergeIdle
    /\ objs = InitObjs
    /\ cats = InitCats

\* the styles made by the caller
NewStyles ==
    { NewStyle("bright", <<99>>), NewStyle("x", <<7>>), NewColor("red", 31), NewColor("red", 41) }

\* Style(name, codes) or BasicColor.parse(name, code)
NewStyleOp ==
    /\ last.n < MaxCalls
    /\ Len(objs) < MaxObjs
    /\ \E o \in NewStyles : objs' = Append(objs, o)
    /\ last' = [op |-> "Style", n |-> last.n + 1]
    /\ UNCHANGED <<nodes, built, shA, shB, shOut, mbuf, mpos, accum, mout, mpc, cats>>

\* cats[c].addStyle(objs[o])
AddStyleOp ==
    /\ last.n < MaxCalls
    /\ \E c \in {i \in DOMAIN cats : cats[i].ok} : \E o \in DOMAIN objs :
         \E r \in {AddStyleTo([objs |-> objs, cats |-> cats, raised |-> FALSE], c, o)} :
             /\ objs' = r.objs
             /\ cats' = r.cats
             /\ last' = [op |-> IF r.raised THEN "addStyle raised" ELSE "addStyle",
                         n |-> last.n + 1, cat |-> c, obj |-> o]
    /\ UNCHANGED <<nodes, built, shA, shB, shOut, mbuf, mpos, accum, mout, mpc>>

\* StyleGroup("G", styles, reset)
NewStyleGroupOp ==
    /\ last.n < MaxCalls
    /\ Len(cats) < MaxGroups
    /\ \E k \in 0..MaxGroupStyles : \E styles \in [1..k -> DOMAIN objs] :
         \E reset \in {-1, 0} \cup DOMAIN objs :
           \E r \in {StyleGroupInit([objs |-> objs, cats |-> cats, raised |-> FALSE],
                                     "G", styles, reset)} :
             /\ objs' = r.objs
             /\ cats' = r.cats
             /\ last' = [op |-> IF r.raised THEN "StyleGroup raised" ELSE "StyleGroup",
                         n |-> last.n + 1]
    /\ UNCHANGED <<nodes, built, shA, shB, shOut, mbuf, mpos, accum, mout, mpc>>

NextCatalog == NewStyleOp \/ AddStyleOp \/ NewStyleGroupOp

SpecCatalog == InitCatalog /\ [][NextCatalog]_vars

----
(* Claims about the groups of the catalog *)

\* the style a group holds under a name
Held(c, k) == objs[cats[c].map[k]]

\* C12: over any sequence of addStyle calls and constructions, a name once bound in
\* a group stays bound in it, and to a style with the same codes.
C12_AppendOnly ==
    [][\A c \in DOMAIN cats : \A k \in DOMAIN cats[c].map :
          /\ k \in DOMAIN cats'[c].map
          /\ objs'[cats'[c].map[k]].codes = Held(c, k).codes]_vars

\* what does hold: no call removes a name from a group
NamesStay ==
    [][\A c \in DOMAIN cats : DOMAIN cats[c].map \subseteq DOMAIN cats'[c].map]_vars

\* C13: after any sequence of constructions and addStyle calls, those that raise
\* included, every style a group holds has that group as its group.
C13_BackReference ==
    \A c \in DOMAIN cats :
        cats[c].ok => \A k \in DOMAIN cats[c].map : GroupOf(Held(c, k)) = c

\* what does hold: the style a call of addStyle has just added, when the call did
\* not raise, is held under its name and has the group as its group
AddedStylePointsBack ==
    last.op = "addStyle" =>
        /\ cats[last.cat].map[objs[last.obj].name] = last.obj
        /\ GroupOf(objs[last.obj]) = last.cat

----
(* rsjoin: joining strs and RichStrs into a RichStr *)

\* the number of items handed to rsjoin
MaxItems == 2
\* the number of rsjoin calls
MaxJoins == 1

\* bool(delim): a str is true when it is not empty; RichStr defines neither
\* __bool__ nor __len__, so a RichStr is true whatever it holds
Truthy(tok) == tok.cls = "RichStr" \/ Len(tok.text) > 0

\* interleavedChain(delim, *iters): next() on no items raises StopIteration inside
\* the generator, which is a RuntimeError where PEP 479 is in force (Python 3.7 on)
\* and the silent end of the generator before that
interleavedChain(delim, iters, pep479) ==
    IF Len(iters) = 0 THEN [raised |-> pep479, out |-> <<>>]
    ELSE [raised |-> FALSE,
          out |-> [k \in 1..(2 * Len(iters) - 1) |->
                      IF k % 2 = 1 THEN iters[(k + 1) \div 2] ELSE delim]]

\* rsjoin(delim, itr), the substrings it hands to RichStr
rsjoin(delim, itr, pep479) ==
    IF Truthy(delim) THEN interleavedChain(delim, itr, pep479)
    ELSE [raised |-> FALSE, out |-> itr]

\* the RichStrs of tests.py, testSideEffects, and an empty RichStr
JoinPool == SideEffectsPool \o << RichStrInit(<<>>, None) >>

\* the delimiters: "", ",", cyan("CCC") and RichStr()
JoinDelims == { Text(<<>>), Text(<<",">>), Ref(2), Ref(5) }

\* the items: "a", "", green("GGG") and red("RRR", green, "rrr", cyan, "RRR")
JoinItems == { Text(<<"a">>), Text(<<>>), Ref(1), Ref(3) }

InitJoin ==
    /\ nodes = JoinPool
    /\ built = JoinPool
    /\ last = NoOut
    /\ shA = SheetEmpty
    /\ shB = SheetEmpty
    /\ shOut = NoOut
    /\ MergeIdle
    /\ CatalogIdle

\* rsjoin(delim, items)
RsjoinOp ==
    /\ Len(nodes) < Len(JoinPool) + MaxJoins
    /\ \E delim \in JoinDelims : \E k \in 0..MaxItems : \E items \in [1..k -> JoinItems] :
         \E pep479 \in BOOLEAN : \E r \in {rsjoin(delim, items, pep479)} :
           IF r.raised
           THEN /\ last' = [op |-> "rsjoin", raised |-> TRUE, delim |-> delim,
                            items |-> items, node |-> 0]
                /\ UNCHANGED <<nodes, built>>
           ELSE /\ nodes' = Append(nodes, RichStrInit(r.out, None))
                /\ built' = Append(built, RichStrInit(r.out, None))
                /\ last' = [op |-> "rsjoin", raised |-> FALSE, delim |-> delim,
                            items |-> items, node |-> Len(nodes) + 1]
    /\ UNCHANGED <<shA, shB, shOut, mbuf, mpos, accum, mout, mpc, objs, cats>>

NextJoin == RsjoinOp \/ PlainOp

SpecJoin == InitJoin /\ [][NextJoin]_vars

\* the plain projection of a str or of a RichStr
PlainOf(tok) == IF tok.cls = "str" THEN tok.text ELSE plain(nodes, tok.id).res

\* the plain projections of the items from the i-th on, the delimiter's between them
RECURSIVE JoinedPlain(_, _, _)
JoinedPlain(delim, items, i) ==
    IF i > Len(items) THEN <<>>
    ELSE IF i = Len(items) THEN PlainOf(items[i])
    ELSE PlainOf(items[i]) \o PlainOf(delim) \o JoinedPlain(delim, items, i + 1)

\* C14: for every delimiter and every finite sequence of items, the empty one and
\* one of a single item included, rsjoin does not raise and returns a RichStr whose
\* plain() is the plain projections of the items with the delimiter's between them.
C14_JoinIsTotal ==
    last.op = "rsjoin" =>
        /\ ~last.raised
        /\ plain(nodes, last.node).res = JoinedPlain(last.delim, last.items, 1)

\* what does hold: a call that returns, returns the join
JoinWhenReturned ==
    (last.op = "rsjoin" /\ ~last.raised) =>
        plain(nodes, last.node).res = JoinedPlain(last.delim, last.items, 1)

\* what does hold: a call with an item, or with the empty str as delimiter, returns
JoinOfItemsReturns ==
    (last.op = "rsjoin" /\ (Len(last.items) > 0 \/ ~Truthy(last.delim))) => ~last.raised

====
